---- MODULE Spec2Model ----
(***************************************************************************)
(* Model of src/mysql_mcp_server.py: five MCP tools (list_tables,         *)
(* describe_table, execute_query, execute_write, get_table_data) running  *)
(* on one process-wide SQLAlchemy engine built by create_db_engine with   *)
(* poolclass=QueuePool, pool_size, max_overflow, pool_recycle,            *)
(* pool_pre_ping=True and pool_use_lifo=True.                              *)
(*                                                                         *)
(* The pool actions follow what QueuePool does for exactly these          *)
(* arguments: a queue of at most pool_size idle connection records, an    *)
(* overflow counter that starts at -pool_size, a timed wait when the      *)
(* queue is empty and the counter is at max_overflow, and the age / ping  *)
(* test made on every checkout.  The database server is taken to be       *)
(* reachable: opening a connection succeeds; statements may fail.         *)
(*                                                                         *)
(* Two specifications share the pool:                                     *)
(*   SpecPool  several concurrent callers, tool bodies reduced to their   *)
(*             outcome (success, statement error, row error);             *)
(*   SpecReq   one caller, tool bodies with their data (table rows,       *)
(*             LIMIT/OFFSET, truncation, transaction commit/rollback).    *)
(***************************************************************************)
EXTENDS Integers, Sequences, FiniteSets, TLC

\* ------------------------------------------------------------- bounds
\* config.DB_POOL_RECYCLE and config.MAX_RESULT_ROWS are read from the
\* environment; the values here are scaled down (DB_POOL_RECYCLE in ticks).
DB_POOL_RECYCLE == 1
MAX_RESULT_ROWS == 2
\* QueuePool's wait bound (pool_timeout), in ticks of the model clock
PoolTimeout == 1
\* number of concurrent callers of SpecPool
NumCallers == 3
\* last tick of the model clock
MaxTime == 2
\* capacity of the one table of the modelled database
MaxTableRows == 3

\* ---------------------------------------------------- program constants
\* limit: int = Field(100, ge=1, le=1000)
LimitMin == 1
LimitMax == 1000

\* the settings DatabaseConfig() may load for the pool: every pool with room
\* for fewer connections than there are callers, and one with room for all
Configs == {[pool_size |-> 1, max_overflow |-> 0],
            [pool_size |-> 1, max_overflow |-> 1],
            [pool_size |-> 2, max_overflow |-> 0],
            [pool_size |-> 2, max_overflow |-> 1]}

Callers == 1 .. NumCallers
Ops == {"list_tables", "describe_table", "execute_query", "execute_write",
        "get_table_data"}

VARIABLES
    config,     \* the loaded settings: pool_size, max_overflow
    idle,       \* QueuePool's queue: idle connection records, oldest release first
    overflow,   \* QueuePool._overflow: records in existence minus pool_size
    now,        \* the clock
    pc,         \* per caller: "ready", "get", "waiting", "holding"
    conn,       \* per caller: the record checked out, or NoConn
    waited,     \* per caller: ticks spent in the current timed wait
    req,        \* per caller: the request being served, NoReq when ready
    db,         \* committed rows of table t
    last        \* the call that ended last: request, result and what it did

vars == <<config, idle, overflow, now, pc, conn, waited, req, db, last>>

DB_POOL_SIZE == config.pool_size
DB_MAX_OVERFLOW == config.max_overflow

\* a connection record: when its connection was opened, its rank among the
\* idle records by time of release (0 while checked out), and whether the
\* connection was opened at the last checkout to replace one past pool_recycle
NoConn == [starttime |-> 0 - 1, rel |-> 0, recycled |-> FALSE]
NoReq == [op |-> "none", table |-> "t", vals |-> <<>>, limit |-> 100, offset |-> 0]
NoRet == [kind |-> "none", err |-> "none", payload |-> [none |-> TRUE]]

Raised(e) == [kind |-> "error", err |-> e, payload |-> [none |-> TRUE]]
Returned(k, p) == [kind |-> k, err |-> "none", payload |-> p]

\* a finished call: the request, what was returned or raised, the rows
\* materialised before truncation, the log levels written, the table as it
\* was when the body started, and whether a connection was checked out and a
\* statement sent
Ended(r, result, rows, levels, before, acq, stmt) ==
    [req |-> r, ret |-> result, fetched |-> rows, log |-> levels,
     snap |-> before, acquired |-> acq, sent |-> stmt]
NoLast == Ended(NoReq, NoRet, <<>>, {}, <<>>, FALSE, FALSE)

Min(a, b) == IF a < b THEN a ELSE b

RECURSIVE MaxRel(_)
MaxRel(q) == IF q = <<>> THEN 0
             ELSE LET m == MaxRel(Tail(q)) IN IF Head(q).rel > m THEN Head(q).rel ELSE m

Held == {c \in Callers : conn[c] # NoConn}
OpenConnections == Len(idle) + Cardinality(Held)

\* ----------------------------------------------------------- the pool
\* QueuePool._inc_overflow: a new record may be created while the counter is
\* below max_overflow
IncOverflowNoLimit == TRUE
IncOverflowAllowed == overflow < DB_MAX_OVERFLOW

\* QueuePool._do_get: wait = use_overflow and overflow >= max_overflow
WaitFlag == overflow >= DB_MAX_OVERFLOW

\* pool_use_lifo=True: the queue hands out the record put most recently
QueuePickFifo(q) == 1
QueuePick(q) == Len(q)

QueueRemove(q, i) == SubSeq(q, 1, i - 1) \o SubSeq(q, i + 1, Len(q))

\* the queue is built with maxsize = pool_size
QueueNeverFull == FALSE
QueueFull == Len(idle) >= DB_POOL_SIZE

\* _ConnectionRecord.get_connection: age test against pool_recycle
NeverRecycle(rec) == FALSE
NeedsRecycle(rec) == now - rec.starttime > DB_POOL_RECYCLE

FreshConnection == [starttime |-> now, rel |-> 0, recycled |-> FALSE]

\* checkout of a record: a connection past pool_recycle, or one whose
\* pre-ping fails, is closed and a new connection is opened in its place
GetConnection(rec, pingOk) ==
    IF NeedsRecycle(rec) THEN [FreshConnection EXCEPT !.recycled = TRUE]
    ELSE IF ~pingOk THEN FreshConnection
    ELSE [rec EXCEPT !.rel = 0]

\* the timed queue.get(wait, timeout) gives up once the wait bound has elapsed
TimedOutAtOnce(c) == TRUE
TimedOut(c) == waited[c] >= PoolTimeout

\* Connection.close() -> pool._return_conn: put(record, block=False); on
\* queue.Full the connection is closed and the overflow counter decremented
ReturnConn(c) ==
    /\ IF QueueFull
       THEN /\ overflow' = overflow - 1
            /\ idle' = idle
       ELSE /\ idle' = Append(idle, [conn[c] EXCEPT !.rel = MaxRel(idle) + 1,
                                                    !.recycled = FALSE])
            /\ overflow' = overflow
    /\ conn' = [conn EXCEPT ![c] = NoConn]

\* exit of `with engine.connect() as conn` / `with engine.begin() as conn`,
\* taken on return and on exception alike
LeakOnError(c, failed) ==
    IF failed
    THEN UNCHANGED <<idle, overflow, conn>>
    ELSE ReturnConn(c)
ScopeExit(c, failed) == ReturnConn(c)

\* a record taken from the queue is checked out to caller c
TakeFromQueue(c) ==
    LET i == QueuePick(idle) IN
    \E pingOk \in BOOLEAN :
        /\ conn' = [conn EXCEPT ![c] = GetConnection(idle[i], pingOk)]
        /\ idle' = QueueRemove(idle, i)
        /\ pc' = [pc EXCEPT ![c] = "holding"]
        /\ waited' = [waited EXCEPT ![c] = 0]
        /\ UNCHANGED <<overflow, now>>

\* _inc_overflow succeeded: pool._create_connection()
CreateConnection(c) ==
    /\ overflow' = overflow + 1
    /\ conn' = [conn EXCEPT ![c] = FreshConnection]
    /\ pc' = [pc EXCEPT ![c] = "holding"]
    /\ waited' = [waited EXCEPT ![c] = 0]
    /\ UNCHANGED <<idle, now>>

\* engine.connect(): the queue holds an idle record
DoGetQueue(c) ==
    /\ pc[c] = "get"
    /\ idle # <<>>
    /\ TakeFromQueue(c)
    /\ UNCHANGED <<config, req, db, last>>

\* engine.connect(): queue empty, counter below max_overflow
DoGetCreate(c) ==
    /\ pc[c] = "get"
    /\ idle = <<>>
    /\ IncOverflowAllowed
    /\ CreateConnection(c)
    /\ UNCHANGED <<config, req, db, last>>

\* engine.connect(): queue empty, counter at max_overflow: timed wait
DoGetWait(c) ==
    /\ pc[c] = "get"
    /\ idle = <<>>
    /\ WaitFlag
    /\ pc' = [pc EXCEPT ![c] = "waiting"]
    /\ waited' = [waited EXCEPT ![c] = 0]
    /\ UNCHANGED <<config, idle, overflow, now, conn, req, db, last>>

\* a waiter is handed a record that was put back
WaitGet(c) ==
    /\ pc[c] = "waiting"
    /\ idle # <<>>
    /\ TakeFromQueue(c)
    /\ UNCHANGED <<config, req, db, last>>

\* the wait bound elapsed with the queue still empty: TimeoutError, unless the
\* counter dropped meanwhile, in which case a connection is created.  The
\* tool's `except Exception` logs the error and re-raises it.
WaitTimeout(c) ==
    /\ pc[c] = "waiting"
    /\ idle = <<>>
    /\ TimedOut(c)
    /\ IF WaitFlag
       THEN /\ pc' = [pc EXCEPT ![c] = "ready"]
            /\ req' = [req EXCEPT ![c] = NoReq]
            /\ last' = Ended(req[c], Raised("PoolExhausted"), <<>>, {"error"},
                             db, FALSE, FALSE)
            /\ waited' = [waited EXCEPT ![c] = 0]
            /\ UNCHANGED <<idle, overflow, now, conn>>
       ELSE /\ CreateConnection(c)
            /\ UNCHANGED <<req, last>>
    /\ UNCHANGED <<config, db>>

\* time passes; a timed wait that has reached its bound returns first
Tick ==
    /\ now < MaxTime
    /\ \A c \in Callers : pc[c] = "waiting" => waited[c] < PoolTimeout
    /\ now' = now + 1
    /\ waited' = [c \in Callers |-> IF pc[c] = "waiting" THEN waited[c] + 1 ELSE waited[c]]
    /\ UNCHANGED <<config, idle, overflow, pc, conn, req, db, last>>

\* ------------------------------------------------------- the requests
\* TableQueryParams.limit: Field(100, ge=1, le=1000); offset: int = 0 carries
\* no constraint
ValidLimitNoLowerBound(l) == l <= LimitMax
ValidLimit(l) == l >= LimitMin /\ l <= LimitMax

\* validation of the tool's arguments against their pydantic models, done
\* before the tool function is entered
Validate(r) == r.op = "get_table_data" => ValidLimit(r.limit)

TableNames == {"t", "missing"}
WriteVals == {<<1>>, <<2, 1>>}
Limits == {0, 1, MAX_RESULT_ROWS + 1, LimitMax, LimitMax + 1}
Offsets == {0 - 1, 0, 1}

Requests ==
    {[NoReq EXCEPT !.op = o] : o \in {"list_tables", "execute_query"}}
    \cup {[NoReq EXCEPT !.op = "describe_table", !.table = t] : t \in TableNames}
    \cup {[NoReq EXCEPT !.op = "execute_write", !.vals = v] : v \in WriteVals}
    \cup {[NoReq EXCEPT !.op = "get_table_data", !.limit = l, !.offset = o] :
             l \in Limits, o \in Offsets}

\* the requests of SpecPool
PoolRequests == {[NoReq EXCEPT !.op = "execute_query"]}

\* a tool is invoked: invalid arguments are rejected before the function runs;
\* otherwise the function starts and reaches engine.connect() / inspect(engine)
Call(c, r) ==
    /\ pc[c] = "ready"
    /\ IF Validate(r)
       THEN /\ pc' = [pc EXCEPT ![c] = "get"]
            /\ req' = [req EXCEPT ![c] = r]
            /\ last' = last
       ELSE /\ last' = Ended(r, Raised("ValidationError"), <<>>, {}, db, FALSE, FALSE)
            /\ UNCHANGED <<pc, req>>
    /\ UNCHANGED <<config, idle, overflow, now, conn, waited, db>>

\* if len(rows) > config.MAX_RESULT_ROWS: rows = rows[:config.MAX_RESULT_ROWS]
TruncateOffByOne(rows) ==
    IF Len(rows) > MAX_RESULT_ROWS THEN SubSeq(rows, 1, MAX_RESULT_ROWS + 1) ELSE rows
Truncate(rows) ==
    IF Len(rows) > MAX_RESULT_ROWS THEN SubSeq(rows, 1, MAX_RESULT_ROWS) ELSE rows

\* the log lines of a read tool: a warning when truncated, then the info line
ReadLog(rows) == IF Len(rows) > MAX_RESULT_ROWS THEN {"warning", "info"} ELSE {"info"}

\* what the database returns for "SELECT ... FROM t LIMIT l OFFSET o"
SelectPage(rows, l, o) == SubSeq(rows, o + 1, Min(Len(rows), o + l))

\* engine.begin(): rollback on an exception inside the block, commit otherwise
RollbackKeepsWork(before, work) == work
Rollback(before, work) == before
Commit(before, work) == work

\* the outcome of a tool body once it holds a connection: what it returns or
\* raises, the rows it materialised, its log lines and the committed table.
\* fail: "none", "stmt" (the statement fails) or "rows" (building the row
\* dicts fails); k: rows a write applied before it stopped.
ListTablesBody(fail) ==
    IF fail # "none"
    THEN [ret |-> Raised("QueryFailed"), rows |-> <<>>, log |-> {"error"}, db |-> db]
    ELSE [ret |-> Returned("tables", [tables |-> <<"t">>]), rows |-> <<>>,
          log |-> {"info"}, db |-> db]

DescribeTableBody(r, fail) ==
    IF fail # "none" \/ r.table # "t"
    THEN [ret |-> Raised("QueryFailed"), rows |-> <<>>, log |-> {"error"}, db |-> db]
    ELSE [ret |-> Returned("columns", [columns |-> <<"x">>]), rows |-> <<>>,
          log |-> {"info"}, db |-> db]

ExecuteQueryBody(fail) ==
    IF fail # "none"
    THEN [ret |-> Raised("QueryFailed"), rows |-> <<>>, log |-> {"error"}, db |-> db]
    ELSE [ret |-> Returned("rows", [rows |-> Truncate(db)]), rows |-> db,
          log |-> ReadLog(db), db |-> db]

GetTableDataBody(r, fail) ==
    IF fail # "none" \/ r.offset < 0
    THEN [ret |-> Raised("QueryFailed"), rows |-> <<>>, log |-> {"error"}, db |-> db]
    ELSE LET page == SelectPage(db, r.limit, r.offset) IN
         [ret |-> Returned("rows", [rows |-> Truncate(page)]), rows |-> page,
          log |-> ReadLog(page), db |-> db]

ExecuteWriteBody(r, k) ==
    LET room == MaxTableRows - Len(db)
        done == Min(Min(k, Len(r.vals)), room)
        work == db \o SubSeq(r.vals, 1, done)
    IN  IF done < Len(r.vals)
        THEN [ret |-> Raised("WriteFailed"), rows |-> <<>>, log |-> {"error"},
              db |-> Rollback(db, work)]
        ELSE [ret |-> Returned("write", [status |-> "success",
                                         affected_rows |-> Len(r.vals),
                                         lastrowid |-> Len(work)]),
              rows |-> <<>>, log |-> {"info"}, db |-> Commit(db, work)]

Body(r, fail, k) ==
    CASE r.op = "list_tables" -> ListTablesBody(fail)
      [] r.op = "describe_table" -> DescribeTableBody(r, fail)
      [] r.op = "execute_query" -> ExecuteQueryBody(fail)
      [] r.op = "get_table_data" -> GetTableDataBody(r, fail)
      [] OTHER -> ExecuteWriteBody(r, k)

\* the tool body runs on its connection and leaves the `with` block
ToolBody(c) ==
    /\ pc[c] = "holding"
    /\ \E fail \in {"none", "stmt", "rows"}, k \in 0 .. 2 :
        LET b == Body(req[c], fail, k) IN
        /\ last' = Ended(req[c], b.ret, b.rows, b.log, db, TRUE, TRUE)
        /\ db' = b.db
        /\ ScopeExit(c, b.ret.kind = "error")
    /\ pc' = [pc EXCEPT ![c] = "ready"]
    /\ req' = [req EXCEPT ![c] = NoReq]
    /\ UNCHANGED <<config, now, waited>>

\* the same step seen from the pool: the body ends, normally or with an
\* exception, and the `with` block is left
Work(c) ==
    /\ pc[c] = "holding"
    /\ \E failed \in BOOLEAN :
        /\ last' = Ended(req[c],
                         IF failed
                         THEN Raised("QueryFailed")
                         ELSE Returned("done", [none |-> TRUE]),
                         <<>>, IF failed THEN {"error"} ELSE {"info"},
                         db, TRUE, TRUE)
        /\ ScopeExit(c, failed)
    /\ pc' = [pc EXCEPT ![c] = "ready"]
    /\ req' = [req EXCEPT ![c] = NoReq]
    /\ UNCHANGED <<config, now, waited, db>>

\* ------------------------------------------------------ specifications
Init ==
    /\ config \in Configs
    /\ idle = <<>>
    /\ overflow = 0 - config.pool_size
    /\ now = 0
    /\ pc = [c \in Callers |-> "ready"]
    /\ conn = [c \in Callers |-> NoConn]
    /\ waited = [c \in Callers |-> 0]
    /\ req = [c \in Callers |-> NoReq]
    /\ db = <<>>
    /\ last = NoLast

NextPool ==
    \/ \E c \in Callers, r \in PoolRequests : Call(c, r)
    \/ \E c \in Callers : DoGetQueue(c)
    \/ \E c \in Callers : DoGetCreate(c)
    \/ \E c \in Callers : DoGetWait(c)
    \/ \E c \in Callers : WaitGet(c)
    \/ \E c \in Callers : WaitTimeout(c)
    \/ \E c \in Callers : Work(c)
    \/ Tick

SpecPool == Init /\ [][NextPool]_vars

\* a tool body that holds a connection runs to its end: statements are bounded
\* by the driver's timeouts and nothing in the body waits for another caller
FairPool == SpecPool /\ \A c \in Callers : WF_vars(Work(c))

NextReq ==
    \/ \E r \in Requests : Call(1, r)
    \/ DoGetQueue(1)
    \/ DoGetCreate(1)
    \/ ToolBody(1)
    \/ Tick

SpecReq == Init /\ [][NextReq]_vars

\* ------------------------------------------------------------ properties
PoolCapacity == DB_POOL_SIZE + DB_MAX_OVERFLOW
Exhausted == Cardinality(Held) = PoolCapacity
Acquiring(c) == pc[c] \in {"get", "waiting"}
HandedOut(c) == conn[c] = NoConn /\ conn'[c] # NoConn
\* the rank of the record a checkout removed from the queue
TakenRel == CHOOSE r \in {idle[i].rel : i \in 1 .. Len(idle)} :
                r \notin {idle'[j].rel : j \in 1 .. Len(idle')}

\* C1: the open connections (idle plus checked out) never number more than
\* pool_size + max_overflow; while that many are checked out, no step hands a
\* connection to a caller that is acquiring one, and such a caller that has
\* just reached engine.connect() can only start waiting; a waiter is handed a
\* connection only once fewer than that many are checked out.
C1_PoolBound ==
    /\ [](OpenConnections <= PoolCapacity)
    /\ [][\A c \in Callers :
            /\ (Acquiring(c) /\ Exhausted) => conn'[c] = NoConn
            /\ (pc[c] = "get" /\ Exhausted /\ pc'[c] # "get") => pc'[c] = "waiting"
            /\ (pc[c] = "waiting" /\ HandedOut(c)) =>
                   (Cardinality(Held) < PoolCapacity
                    /\ OpenConnections' <= PoolCapacity)]_vars

\* with pool_size=1 and max_overflow=1, a third caller waits while two
\* connections are checked out
C1_Witness ==
    /\ config = [pool_size |-> 1, max_overflow |-> 1]
    /\ Exhausted
    /\ \E c \in Callers : pc[c] = "waiting"

\* C5: a checkout never hands out a connection older than pool_recycle: when
\* the record taken from the queue is past that age, the connection handed
\* out was opened at this checkout (age zero) in its place.
C5_Recycle ==
    [][\A c \in Callers : HandedOut(c) =>
          /\ now - conn'[c].starttime <= DB_POOL_RECYCLE
          /\ (Len(idle') < Len(idle)
              /\ \E i \in 1 .. Len(idle) :
                    /\ idle[i].rel = TakenRel
                    /\ now - idle[i].starttime > DB_POOL_RECYCLE)
             => (conn'[c].starttime = now /\ conn'[c].recycled)]_vars

\* a caller holds a connection that replaced, at checkout, one past pool_recycle
C5_Witness ==
    \E c \in Callers : pc[c] = "holding" /\ conn[c].recycled /\ conn[c].starttime = now

\* C6: every connection checked out by a tool is returned to the pool, on
\* return and on exception alike, and the callers are never all blocked in
\* engine.connect().
C6_Released ==
    /\ \A c \in Callers : (conn[c] # NoConn) ~> (conn[c] = NoConn)
    /\ []<>(\E c \in Callers : pc[c] # "waiting")
    /\ [](\A c \in Callers : conn[c] # NoConn <=> pc[c] = "holding")

\* a call that failed after checking out a connection has ended and its
\* record is back in the queue
C6_Witness ==
    /\ last.ret.kind = "error"
    /\ last.acquired
    /\ idle # <<>>
    /\ Held = {}

\* C7: a caller waiting on the exhausted pool leaves the wait either holding
\* a connection, which it can get only after a release (a record is in the
\* queue, or the overflow counter has dropped below max_overflow), or with
\* PoolExhausted raised exactly when the wait bound has elapsed with the queue
\* still empty; the wait never exceeds the bound.
C7_WaitOutcome ==
    /\ [](\A c \in Callers : waited[c] <= PoolTimeout)
    /\ [][\A c \in Callers : (pc[c] = "waiting" /\ pc'[c] # "waiting") =>
            \/ /\ pc'[c] = "holding"
               /\ conn'[c] # NoConn
               /\ (idle # <<>> \/ ~WaitFlag)
            \/ /\ pc'[c] = "ready"
               /\ conn'[c] = NoConn
               /\ last'.ret = Raised("PoolExhausted")
               /\ waited[c] = PoolTimeout
               /\ idle = <<>>
               /\ Exhausted]_vars

\* a wait ended with PoolExhausted
C7_Witness ==
    /\ last.ret = Raised("PoolExhausted")
    /\ ~last.acquired

\* C9: the queue never holds more than pool_size idle records and the
\* overflow counter never exceeds max_overflow; a connection returned while
\* the queue is full is closed, not queued.
C9_IdleBound ==
    /\ [](Len(idle) <= DB_POOL_SIZE /\ overflow <= DB_MAX_OVERFLOW)
    /\ [][\A c \in Callers :
            (conn[c] # NoConn /\ conn'[c] = NoConn /\ Len(idle) = DB_POOL_SIZE) =>
                /\ idle' = idle
                /\ overflow' = overflow - 1
                /\ OpenConnections' = OpenConnections - 1]_vars

\* the queue is full while an overflow connection is still checked out
C9_Witness ==
    /\ Len(idle) = DB_POOL_SIZE
    /\ overflow > 0
    /\ Held # {}

\* C10: a checkout served from the queue takes the record released most
\* recently among the idle ones.
C10_Lifo ==
    [][\A c \in Callers : (HandedOut(c) /\ Len(idle') < Len(idle)) =>
          \A j \in 1 .. Len(idle') : idle'[j].rel < TakenRel]_vars

\* two records are idle and a caller is about to check one out
C10_Witness ==
    /\ Len(idle) >= 2
    /\ idle[1].starttime # idle[2].starttime
    /\ \E c \in Callers : pc[c] = "get"

ReadOps == {"execute_query", "get_table_data"}
LimitOutOfRange(r) == r.op = "get_table_data" /\ (r.limit < LimitMin \/ r.limit > LimitMax)
NegativeOffset(r) == r.op = "get_table_data" /\ r.offset < 0
RejectedUnseen ==
    /\ last.ret = Raised("ValidationError")
    /\ ~last.acquired
    /\ ~last.sent

\* C2: an execute_write whose statement fails leaves the table as it was
\* before the call (the transaction is rolled back), raises WriteFailed and
\* reports no affected-row count; the table changes only through a write
\* that succeeded, which commits exactly the statement's rows.
C2_WriteAtomic ==
    last.req.op = "execute_write" =>
        /\ last.ret.kind \in {"error", "write"}
        /\ last.ret.kind = "error" =>
              /\ db = last.snap
              /\ last.ret.err = "WriteFailed"
              /\ "affected_rows" \notin DOMAIN last.ret.payload
              /\ "status" \notin DOMAIN last.ret.payload
        /\ last.ret.kind = "write" =>
              /\ db = last.snap \o last.req.vals
              /\ last.ret.payload.affected_rows = Len(last.req.vals)

\* a two-row write failed on a non-empty table with room for both rows
C2_Witness ==
    /\ last.req.op = "execute_write"
    /\ last.ret = Raised("WriteFailed")
    /\ Len(last.req.vals) = 2
    /\ last.snap # <<>>
    /\ Len(last.snap) + 2 <= MaxTableRows

C4_LimitRejected ==
    /\ LimitOutOfRange(last.req) => RejectedUnseen
    /\ \A c \in Callers : ~LimitOutOfRange(req[c])

\* limit=0 was rejected
C4_Witness ==
    /\ last.req.op = "get_table_data"
    /\ last.req.limit = 0
    /\ last.ret = Raised("ValidationError")

\* C8 as stated: a get_table_data request with a negative offset ends with a
\* validation error without a connection checked out or a statement sent, and
\* no such request is ever being served.
C8_NegativeOffsetRejected ==
    /\ NegativeOffset(last.req) => RejectedUnseen
    /\ \A c \in Callers : ~NegativeOffset(req[c])
====
